---- MODULE Spec2Model ----
(***************************************************************************)
(* Model of src-tauri/src/lib.rs: the three commands scan_folder,          *)
(* generate_tags and check_ollama.  Strings are sequences of one-character *)
(* strings, so that extension extraction, lower-casing, trimming,          *)
(* splitting, byte length and byte-wise comparison are computed the way    *)
(* the Rust standard library computes them.                                *)
(***************************************************************************)
EXTENDS Integers, Sequences, FiniteSets, TLC

VARIABLES
    dir,        \* what read_dir yields for the scanned folder, in raw order
    body,       \* the "response" text the server would answer with
    prev,       \* the command of the call before the latest one
    op,         \* the command of the latest call ("none" before any call)
    seen,       \* what the filesystem answered during the latest call
    sent,       \* the HTTP exchanges of the latest call, in order
    result      \* what the latest call returned

vars == <<dir, body, prev, op, seen, sent, result>>

(***************************************************************************)
(* Characters and strings                                                  *)
(***************************************************************************)

\* str::to_lowercase, per character (the characters the model uses).
LowerChar(c) ==
    CASE c = "A" -> "a" [] c = "B" -> "b" [] c = "C" -> "c" [] c = "D" -> "d"
      [] c = "G" -> "g" [] c = "J" -> "j" [] c = "P" -> "p" [] c = "X" -> "x"
      [] c = "É" -> "é"
      [] OTHER -> c

\* The UTF-8 bytes of one character.
Utf8(c) ==
    CASE c = "\n" -> <<10>> [] c = " " -> <<32>> [] c = "," -> <<44>>
      [] c = "." -> <<46>>
      [] c = "A" -> <<65>> [] c = "B" -> <<66>> [] c = "C" -> <<67>>
      [] c = "D" -> <<68>> [] c = "G" -> <<71>> [] c = "J" -> <<74>>
      [] c = "P" -> <<80>> [] c = "X" -> <<88>>
      [] c = "a" -> <<97>> [] c = "b" -> <<98>> [] c = "c" -> <<99>>
      [] c = "d" -> <<100>> [] c = "e" -> <<101>> [] c = "f" -> <<102>>
      [] c = "g" -> <<103>> [] c = "i" -> <<105>> [] c = "j" -> <<106>>
      [] c = "n" -> <<110>> [] c = "o" -> <<111>> [] c = "p" -> <<112>>
      [] c = "s" -> <<115>> [] c = "t" -> <<116>> [] c = "u" -> <<117>>
      [] c = "x" -> <<120>>
      [] c = "É" -> <<195, 137>>
      [] c = "é" -> <<195, 169>>

\* char::is_whitespace, as used by str::trim.
IsWhitespace(c) == c \in {" ", "\n"}

\* str::to_lowercase.
ToLowercase(s) == [i \in 1..Len(s) |-> LowerChar(s[i])]

RECURSIVE Bytes(_)
\* The UTF-8 encoding of a string: what str::len counts and Ord compares.
Bytes(s) == IF s = <<>> THEN <<>> ELSE Utf8(Head(s)) \o Bytes(Tail(s))

\* str::len: the length in bytes.
StrLen(s) == Len(Bytes(s))

RECURSIVE BytesLeq(_, _)
\* Lexicographic order of byte strings (<= of Ord for str).
BytesLeq(a, b) ==
    IF a = <<>> THEN TRUE
    ELSE IF b = <<>> THEN FALSE
    ELSE IF Head(a) < Head(b) THEN TRUE
    ELSE IF Head(a) > Head(b) THEN FALSE
    ELSE BytesLeq(Tail(a), Tail(b))

\* a.cmp(b) /= Greater, for strings.
StrLeq(a, b) == BytesLeq(Bytes(a), Bytes(b))

RECURSIVE Decimal(_)
\* The decimal digits "{}" formats a usize with.
Decimal(n) ==
    LET digit(d) == <<"0", "1", "2", "3", "4", "5", "6", "7", "8", "9">>[d + 1]
    IN  IF n < 10 THEN <<digit(n)>> ELSE Decimal(n \div 10) \o <<digit(n % 10)>>

(***************************************************************************)
(* scan_folder                                                             *)
(***************************************************************************)

IMAGE_EXTENSIONS ==
    { <<"j", "p", "g">>, <<"j", "p", "e", "g">>, <<"p", "n", "g">>,
      <<"g", "i", "f">>, <<"w", "e", "b", "p">>, <<"b", "m", "p">>,
      <<"t", "i", "f", "f">>, <<"t", "i", "f">>, <<"s", "v", "g">> }

\* The position of the last "." of a file name, 0 when it has none.
LastDot(name) ==
    LET dots == {i \in 1..Len(name) : name[i] = "."}
    IN  IF dots = {} THEN 0 ELSE CHOOSE i \in dots : \A j \in dots : j <= i

\* Path::extension of a directory entry's path: the part of the file name
\* after its last ".", when there is a "." and it is not the first character.
\* The record says whether there is an extension (Some) and which.
Extension(name) ==
    LET d == LastDot(name)
    IN  IF d <= 1
        THEN [some |-> FALSE, ext |-> <<>>]
        ELSE [some |-> TRUE, ext |-> SubSeq(name, d + 1, Len(name))]

\* PathBuf::join of the folder and an entry name, as a string.
EntryPath(folder, name) == <<folder, "/">> \o name

\* Variant: the tags of the preceding generate_tags call are kept in the
\* new record.
NewImageInfoStale(folder, index, name) ==
    [ id          |-> <<"i", "m", "g", "_">> \o Decimal(index),
      path        |-> EntryPath(folder, name),
      name        |-> name,
      tags        |-> IF op = "generate_tags" /\ result.ok THEN result.val ELSE <<>>,
      description |-> <<>> ]

\* The ImageInfo pushed for the entry at index of the enumeration.
NewImageInfo(folder, index, name) ==
    [ id          |-> <<"i", "m", "g", "_">> \o Decimal(index),
      path        |-> EntryPath(folder, name),
      name        |-> name,
      tags        |-> <<>>,
      description |-> <<>> ]

\* Variant: the extension is compared without lower-casing it.
IsImageEntryCaseSensitive(e) ==
    /\ e.readable
    /\ e.isFile
    /\ Extension(e.name).some
    /\ Extension(e.name).ext \in IMAGE_EXTENSIONS

\* The test of the loop body: a readable entry that is a file with an
\* extension which, lower-cased, is one of IMAGE_EXTENSIONS.
IsImageEntry(e) ==
    /\ e.readable
    /\ e.isFile
    /\ Extension(e.name).some
    /\ ToLowercase(Extension(e.name).ext) \in IMAGE_EXTENSIONS

RECURSIVE CollectKeptIndex(_, _, _)
\* Variant: enumerate() applied after the filter, so that only kept entries
\* consume an index.
CollectKeptIndex(folder, entries, index) ==
    IF entries = <<>> THEN <<>>
    ELSE IF IsImageEntry(Head(entries))
         THEN <<NewImageInfo(folder, index, Head(entries).name)>>
              \o CollectKeptIndex(folder, Tail(entries), index + 1)
         ELSE CollectKeptIndex(folder, Tail(entries), index)

RECURSIVE CollectNoAdvance(_, _, _)
\* Variant: the index is never advanced.
CollectNoAdvance(folder, entries, index) ==
    IF entries = <<>> THEN <<>>
    ELSE (IF IsImageEntry(Head(entries))
          THEN <<NewImageInfo(folder, index, Head(entries).name)>>
          ELSE <<>>)
         \o CollectNoAdvance(folder, Tail(entries), index)

RECURSIVE Collect(_, _, _)
\* The for loop over entries.enumerate(): index is the zero-based index of
\* Head(entries) in the whole enumeration.
Collect(folder, entries, index) ==
    IF entries = <<>> THEN <<>>
    ELSE (IF IsImageEntry(Head(entries))
          THEN <<NewImageInfo(folder, index, Head(entries).name)>>
          ELSE <<>>)
         \o Collect(folder, Tail(entries), index + 1)

\* Variant: the names are compared without lower-casing them.
NameLeqCaseSensitive(a, b) == StrLeq(a.name, b.name)

\* The comparator of sort_by: a before-or-equal b.
NameLeq(a, b) == StrLeq(ToLowercase(a.name), ToLowercase(b.name))

RECURSIVE InsertSorted(_, _)
\* Inserts x after every element that is not greater than x.
InsertSorted(sorted, x) ==
    IF sorted = <<>> THEN <<x>>
    ELSE IF NameLeq(Head(sorted), x)
         THEN <<Head(sorted)>> \o InsertSorted(Tail(sorted), x)
         ELSE <<x>> \o sorted

RECURSIVE SortImages(_)
\* images.sort_by(..): a stable sort by lower-cased name.
SortImages(images) ==
    IF images = <<>> THEN <<>>
    ELSE InsertSorted(SortImages(SubSeq(images, 1, Len(images) - 1)),
                      images[Len(images)])

Ok(v) == [ok |-> TRUE, val |-> v, err |-> <<>>]
Err(msg) == [ok |-> FALSE, val |-> <<>>, err |-> msg]

\* Variant: is_dir is tested before exists.
scan_folderDirFirst(folder, kind, listing) ==
    IF kind # "dir" THEN Err(<<"Path is not a directory">>)
    ELSE IF kind = "missing" THEN Err(<<"Folder does not exist">>)
    ELSE IF ~listing.ok THEN Err(<<"Failed to read directory: ", listing.err>>)
    ELSE Ok(SortImages(Collect(folder, listing.entries, 0)))

\* scan_folder, given what the filesystem answers: kind is what the path
\* is ("missing", "file" or "dir") and listing the outcome of read_dir.
scan_folder(folder, kind, listing) ==
    IF kind = "missing" THEN Err(<<"Folder does not exist">>)
    ELSE IF kind # "dir" THEN Err(<<"Path is not a directory">>)
    ELSE IF ~listing.ok THEN Err(<<"Failed to read directory: ", listing.err>>)
    ELSE Ok(SortImages(Collect(folder, listing.entries, 0)))

(***************************************************************************)
(* generate_tags and check_ollama                                          *)
(***************************************************************************)

\* The alphabet of base64::engine::general_purpose::STANDARD.
B64Alphabet ==
    << "A", "B", "C", "D", "E", "F", "G", "H", "I", "J", "K", "L", "M",
       "N", "O", "P", "Q", "R", "S", "T", "U", "V", "W", "X", "Y", "Z",
       "a", "b", "c", "d", "e", "f", "g", "h", "i", "j", "k", "l", "m",
       "n", "o", "p", "q", "r", "s", "t", "u", "v", "w", "x", "y", "z",
       "0", "1", "2", "3", "4", "5", "6", "7", "8", "9", "+", "/" >>

B64Char(n) == B64Alphabet[n + 1]

RECURSIVE Base64Encode(_)
\* STANDARD.encode: three bytes become four characters, with "=" padding.
Base64Encode(bytes) ==
    IF bytes = <<>> THEN <<>>
    ELSE IF Len(bytes) = 1 THEN
        << B64Char(bytes[1] \div 4), B64Char((bytes[1] % 4) * 16), "=", "=" >>
    ELSE IF Len(bytes) = 2 THEN
        << B64Char(bytes[1] \div 4),
           B64Char((bytes[1] % 4) * 16 + bytes[2] \div 16),
           B64Char((bytes[2] % 16) * 4), "=" >>
    ELSE
        << B64Char(bytes[1] \div 4),
           B64Char((bytes[1] % 4) * 16 + bytes[2] \div 16),
           B64Char((bytes[2] % 16) * 4 + bytes[3] \div 64),
           B64Char(bytes[3] % 64) >>
        \o Base64Encode(SubSeq(bytes, 4, Len(bytes)))

\* The OllamaRequest built for an image.
OllamaRequest(image_bytes) ==
    [ model  |-> "moondream",
      prompt |-> "List 5-10 descriptive tags for this image. Output only the tags separated by commas, nothing else. Example: nature, sunset, mountain, peaceful, orange sky",
      images |-> <<Base64Encode(image_bytes)>>,
      stream |-> FALSE ]

\* StatusCode::is_success.
IsSuccess(status) == 200 <= status /\ status < 300

\* One HTTP exchange: the request sent and what came of it.
Exchange(method, url, json, outcome) ==
    [method |-> method, url |-> url, json |-> json, outcome |-> outcome]

\* response.json::<OllamaResponse>(): the body decodes when it is a JSON
\* object with a string field "response".
DecodeOllamaResponse(b) ==
    IF b.kind = "response"
    THEN [ok |-> TRUE, response |-> b.text, err |-> <<>>]
    ELSE [ok |-> FALSE, response |-> <<>>, err |-> b.kind]

RECURSIVE Split(_, _)
\* str::split(sep): the pieces between separators, empty pieces included.
Split(s, sep) ==
    LET seps == {i \in 1..Len(s) : s[i] = sep}
    IN  IF seps = {} THEN <<s>>
        ELSE LET i == CHOOSE k \in seps : \A j \in seps : k <= j
             IN  <<SubSeq(s, 1, i - 1)>> \o Split(SubSeq(s, i + 1, Len(s)), sep)

RECURSIVE TrimStart(_)
TrimStart(s) ==
    IF s # <<>> /\ IsWhitespace(Head(s)) THEN TrimStart(Tail(s)) ELSE s

RECURSIVE TrimEnd(_)
TrimEnd(s) ==
    IF s # <<>> /\ IsWhitespace(s[Len(s)])
    THEN TrimEnd(SubSeq(s, 1, Len(s) - 1)) ELSE s

\* str::trim.
Trim(s) == TrimEnd(TrimStart(s))

\* The closure of .map(): trimmed and lower-cased.
MapTag(s) == ToLowercase(Trim(s))

\* Variant: the length test is off by one.
KeepTagUpTo50(s) == s # <<>> /\ StrLen(s) <= 50

\* The closure of .filter(): not empty and shorter than 50 (str::len).
KeepTag(s) == s # <<>> /\ StrLen(s) < 50

\* The tags parsed from the response text.
ParseTags(response) ==
    LET pieces == Split(response, ",")
    IN  SelectSeq([i \in 1..Len(pieces) |-> MapTag(pieces[i])], KeepTag)

\* Variant: the body is decoded before the status is looked at.
TagsReplyParseFirst(net) ==
    IF ~net.delivered
    THEN Err(<<"Failed to call Ollama: ", net.err, ". Is Ollama running?">>)
    ELSE IF ~DecodeOllamaResponse(net.body).ok
    THEN Err(<<"Failed to parse Ollama response: ",
               DecodeOllamaResponse(net.body).err>>)
    ELSE IF ~IsSuccess(net.status)
    THEN Err(<<"Ollama returned error: ", net.status>>)
    ELSE Ok(ParseTags(DecodeOllamaResponse(net.body).response))

\* What generate_tags makes of the outcome of send(): the status is looked
\* at before the body is decoded, and the tags are parsed last.
TagsReply(net) ==
    IF ~net.delivered
    THEN Err(<<"Failed to call Ollama: ", net.err, ". Is Ollama running?">>)
    ELSE IF ~IsSuccess(net.status)
    THEN Err(<<"Ollama returned error: ", net.status>>)
    ELSE IF ~DecodeOllamaResponse(net.body).ok
    THEN Err(<<"Failed to parse Ollama response: ",
               DecodeOllamaResponse(net.body).err>>)
    ELSE Ok(ParseTags(DecodeOllamaResponse(net.body).response))

\* Variant: a request that could not be sent is sent a second time.
generate_tagsRetry(image_path, read, net) ==
    LET ex == Exchange("POST", "http://localhost:11434/api/generate",
                       OllamaRequest(read.bytes), net)
    IN  IF ~read.ok
        THEN [ret |-> Err(<<"Failed to read image: ", read.err>>), sent |-> <<>>]
        ELSE [ret  |-> TagsReply(net),
              sent |-> IF net.delivered THEN <<ex>> ELSE <<ex, ex>>]

\* generate_tags, given the outcome of fs::read and the outcome of send():
\* what it returns and the exchanges it made.
generate_tags(image_path, read, net) ==
    IF ~read.ok
    THEN [ret |-> Err(<<"Failed to read image: ", read.err>>), sent |-> <<>>]
    ELSE [ret  |-> TagsReply(net),
          sent |-> <<Exchange("POST", "http://localhost:11434/api/generate",
                              OllamaRequest(read.bytes), net)>>]

\* Variant: any response at all counts as healthy.
check_ollamaAnyResponse(net) ==
    [ret  |-> Ok(net.delivered),
     sent |-> <<Exchange("GET", "http://localhost:11434/api/tags", <<>>, net)>>]

\* check_ollama, given the outcome net of send().
check_ollama(net) ==
    LET ex == Exchange("GET", "http://localhost:11434/api/tags", <<>>, net)
    IN  IF net.delivered
        THEN [ret |-> Ok(IsSuccess(net.status)), sent |-> <<ex>>]
        ELSE [ret |-> Ok(FALSE), sent |-> <<ex>>]

(***************************************************************************)
(* The environment: what the filesystem and the server can answer          *)
(***************************************************************************)

MaxEntries == 3     \* directory entries per enumeration
MaxPieces == 2      \* comma-separated pieces per response text

\* File names a directory may hold: supported extensions in both cases, two
\* names equal up to case, an unsupported extension, no extension, a dot file.
FileNames ==
    { <<"a", ".", "j", "p", "g">>, <<"a", ".", "J", "P", "G">>,
      <<"B", ".", "p", "n", "g">>, <<"C", ".", "g", "i", "f">>,
      <<"d", ".", "t", "x", "t">>, <<"e">>, <<".", "p", "n", "g">> }

\* A directory entry as read_dir yields it: readable is whether the item is
\* Ok, isFile what Path::is_file answers for it.  The name and isFile of an
\* unreadable entry are those of the directory's file the read failed on;
\* scan_folder never looks at them.
Entries == [name : FileNames, isFile : BOOLEAN, readable : BOOLEAN]

\* The raw enumerations of a directory: no two entries share a name.
Enumerations ==
    { s \in UNION {[1..n -> Entries] : n \in 0..MaxEntries} :
        \A i, j \in 1..Len(s) : i # j => s[i].name # s[j].name }

File(name) == [name |-> name, isFile |-> TRUE, readable |-> TRUE]

\* The directory of the spec's example, in one raw order.
ExampleDir ==
    << File(<<"B", ".", "p", "n", "g">>), File(<<"a", ".", "j", "p", "g">>),
       File(<<"C", ".", "g", "i", "f">>) >>

IoErrors == {"Permission denied (os error 13)"}
NetErrors == {"connection refused", "operation timed out"}
Statuses == {200, 201, 404, 500}
PathKinds == {"missing", "file", "dir"}
Folders == {"/pics"}
ImagePaths == {"/pics/a.jpg"}

\* Outcomes of fs::read_dir on a directory that enumerates as d.
Listings(d) ==
    {[ok |-> TRUE, entries |-> d, err |-> <<>>]}
    \cup {[ok |-> FALSE, entries |-> <<>>, err |-> e] : e \in IoErrors}

\* Outcomes of fs::read on the image.
Reads ==
    {[ok |-> TRUE, bytes |-> b, err |-> <<>>] : b \in {<<>>, <<255, 216>>, <<71, 73, 70, 56>>}}
    \cup {[ok |-> FALSE, bytes |-> <<>>, err |-> e] : e \in IoErrors}

\* Response bodies: a JSON object with the text t as "response", an object
\* without that field, or something that is not JSON.
Bodies(t) ==
    { [kind |-> "response", text |-> t],
      [kind |-> "missing field response", text |-> <<>>],
      [kind |-> "expected value at line 1 column 1", text |-> <<>>] }

\* Outcomes of send(): not delivered, or a response with a status and body.
Sends(t) ==
    {[delivered |-> FALSE, err |-> e, status |-> 0, body |-> <<>>] : e \in NetErrors}
    \cup {[delivered |-> TRUE, err |-> <<>>, status |-> st, body |-> b] :
            st \in Statuses, b \in Bodies(t)}

Rep(c, n) == [i \in 1..n |-> c]

\* Pieces a response text is made of (none holds a comma).
Pieces ==
    { <<"c", "a", "t">>, <<" ", "D", "o", "g", " ">>,
      <<" ", "s", "u", "n", "s", "e", "t">>, <<>>, <<" ", " ">>,
      Rep("x", 49), <<" ">> \o Rep("X", 50) \o <<"\n">>, Rep("x", 60),
      Rep("é", 25) }

RECURSIVE JoinPieces(_)
JoinPieces(ps) ==
    IF Len(ps) = 1 THEN ps[1] ELSE ps[1] \o <<",">> \o JoinPieces(Tail(ps))

\* "cat, Dog , sunset,,  "
ExampleResponse ==
    JoinPieces(<< <<"c", "a", "t">>, <<" ", "D", "o", "g", " ">>,
                  <<" ", "s", "u", "n", "s", "e", "t">>, <<>>, <<" ", " ">> >>)

Responses ==
    {JoinPieces(ps) : ps \in UNION {[1..n -> Pieces] : n \in 1..MaxPieces}}
    \cup {ExampleResponse}

NoCall == [ok |-> TRUE, val |-> <<>>, err |-> <<>>]

(***************************************************************************)
(* The commands, as invoked by the UI shell                                *)
(***************************************************************************)

ScanFolder ==
    \E folder \in Folders, kind \in PathKinds, listing \in Listings(dir) :
        /\ prev' = op
        /\ op' = "scan_folder"
        /\ seen' = [arg |-> folder, kind |-> kind,
                    listing |-> IF kind = "dir" THEN listing ELSE <<>>]
        /\ sent' = <<>>
        /\ result' = scan_folder(folder, kind, listing)
        /\ UNCHANGED <<dir, body>>

GenerateTags ==
    \E path \in ImagePaths, read \in Reads, net \in Sends(body) :
        LET call == generate_tags(path, read, net)
        IN  /\ prev' = op
            /\ op' = "generate_tags"
            /\ seen' = [arg |-> path, read |-> read]
            /\ sent' = call.sent
            /\ result' = call.ret
            /\ UNCHANGED <<dir, body>>

CheckOllama ==
    \E net \in Sends(body) :
        LET call == check_ollama(net)
        IN  /\ prev' = op
            /\ op' = "check_ollama"
            /\ seen' = <<>>
            /\ sent' = call.sent
            /\ result' = call.ret
            /\ UNCHANGED <<dir, body>>

Idle == prev = "none" /\ op = "none" /\ seen = <<>> /\ sent = <<>> /\ result = NoCall

\* Any of the three commands, on a small directory and a few responses.
Init ==
    /\ dir \in {d \in Enumerations : Len(d) <= 1} \cup {ExampleDir}
    /\ body \in {ExampleResponse, Rep("x", 60), <<>>}
    /\ Idle

Next == ScanFolder \/ GenerateTags \/ CheckOllama

Spec == Init /\ [][Next]_vars

\* scan_folder alone, on every enumeration within the bounds.
InitScan == dir \in Enumerations /\ body = ExampleResponse /\ Idle

NextScan == ScanFolder

SpecScan == InitScan /\ [][NextScan]_vars

\* generate_tags alone, on every response text within the bounds.
InitTags == dir = ExampleDir /\ body \in Responses /\ Idle

NextTags == GenerateTags

SpecTags == InitTags /\ [][NextTags]_vars

(***************************************************************************)
(* Properties                                                              *)
(***************************************************************************)

Range(f) == {f[i] : i \in DOMAIN f}

\* The latest call was a scan_folder that returned records; Raw is then the
\* enumeration it was given.
Scanned == op = "scan_folder" /\ result.ok
Raw == seen.listing.entries

Names(images) == [i \in 1..Len(images) |-> images[i].name]
LowerNames(images) == [i \in 1..Len(images) |-> ToLowercase(images[i].name)]

\* A name with a supported extension: some "." that is neither the first
\* character nor followed by another ".", and after it, up to case, one of
\* the nine extensions.
SupportedName(name) ==
    \E k \in 2..Len(name) :
        /\ name[k] = "."
        /\ \A j \in (k + 1)..Len(name) : name[j] # "."
        /\ ToLowercase(SubSeq(name, k + 1, Len(name))) \in IMAGE_EXTENSIONS

\* C1, as stated: a successful scan_folder returns one record per entry of
\* the directory that is a regular file with a supported extension, and the
\* returned names are exactly the names of those entries.
C1_AsClaimed ==
    Scanned =>
        LET want == {e \in Range(Raw) : e.isFile /\ SupportedName(e.name)}
        IN  /\ Range(Names(result.val)) = {e.name : e \in want}
            /\ Len(result.val) = Cardinality(want)

\* C1, amended: a successful scan_folder returns one record per entry that
\* was read without error and is a regular file with a supported extension,
\* and the returned names are exactly the names of those entries.
C1_ReadableImages ==
    Scanned =>
        LET want == {e \in Range(Raw) :
                        e.readable /\ e.isFile /\ SupportedName(e.name)}
        IN  /\ Range(Names(result.val)) = {e.name : e \in want}
            /\ Len(result.val) = Cardinality(want)

\* A scan that kept an image with an upper-case extension, left out a
\* subdirectory and left out an image whose entry could not be read.
C1_Witness ==
    /\ Scanned
    /\ <<"a", ".", "J", "P", "G">> \in Range(Names(result.val))
    /\ \E e \in Range(Raw) : ~e.isFile /\ e.readable
    /\ \E e \in Range(Raw) : e.isFile /\ ~e.readable /\ SupportedName(e.name)

\* The records scan_folder would return had the directory been enumerated
\* in the order p of the enumeration it was given.
Rescan(p) ==
    scan_folder(seen.arg, "dir",
                [ok |-> TRUE, entries |-> [i \in 1..Len(Raw) |-> Raw[p[i]]],
                 err |-> <<>>]).val

Ascending ==
    \A i \in 1..(Len(result.val) - 1) :
        StrLeq(ToLowercase(result.val[i].name), ToLowercase(result.val[i + 1].name))

\* C2, as stated: the returned records ascend by lower-cased name, and the
\* returned names are in the same order for every permutation of the
\* enumeration.
C2_AsClaimed ==
    Scanned =>
        /\ Ascending
        /\ \A p \in Permutations(1..Len(Raw)) :
               Names(Rescan(p)) = Names(result.val)

\* C2, amended: the returned records ascend by lower-cased name, and the
\* sequence of lower-cased names is the same for every permutation of the
\* enumeration (names equal up to case keep their enumeration order).
C2_SortedByLowerName ==
    Scanned =>
        /\ Ascending
        /\ \A p \in Permutations(1..Len(Raw)) :
               LowerNames(Rescan(p)) = LowerNames(result.val)

\* The spec's example: enumerated as B.png, a.jpg, C.gif and returned as
\* a.jpg, B.png, C.gif.
C2_Witness ==
    /\ Scanned
    /\ Names(Raw) = << <<"B", ".", "p", "n", "g">>, <<"a", ".", "j", "p", "g">>,
                       <<"C", ".", "g", "i", "f">> >>
    /\ Names(result.val) = << <<"a", ".", "j", "p", "g">>, <<"B", ".", "p", "n", "g">>,
                              <<"C", ".", "g", "i", "f">> >>

\* C3: scan_folder fails with "Folder does not exist" on a missing path,
\* with "Path is not a directory" on a path that is no directory, and with
\* "Failed to read directory: <message>" when the listing fails; a failure
\* returns no records; unreadable entries do not fail the scan.
C3_ScanErrors ==
    op = "scan_folder" =>
        /\ seen.kind = "missing" =>
               ~result.ok /\ result.err = <<"Folder does not exist">>
        /\ seen.kind = "file" =>
               ~result.ok /\ result.err = <<"Path is not a directory">>
        /\ (seen.kind = "dir" /\ ~seen.listing.ok) =>
               /\ ~result.ok
               /\ result.err = <<"Failed to read directory: ", seen.listing.err>>
        /\ ~result.ok => result.val = <<>>
        /\ (seen.kind = "dir" /\ seen.listing.ok) => result.ok

\* A scan that succeeded although an entry of the directory was unreadable.
C3_Witness ==
    /\ Scanned
    /\ \E e \in Range(Raw) : ~e.readable
    /\ result.val # <<>>

\* The latest call was a generate_tags that returned tags; Text is then the
\* response text the server answered with.
Tagged == op = "generate_tags" /\ result.ok
Text == sent[1].outcome.body.text

\* The pieces of a text between its commas, in order.
RefPieces(t) ==
    LET commas == {i \in 1..Len(t) : t[i] = ","}
        n == Cardinality(commas)
        comma(k) == CHOOSE i \in commas : Cardinality({j \in commas : j < i}) = k - 1
        first(k) == IF k = 1 THEN 1 ELSE comma(k - 1) + 1
        last(k) == IF k = n + 1 THEN Len(t) ELSE comma(k) - 1
    IN  [k \in 1..(n + 1) |-> SubSeq(t, first(k), last(k))]

\* A piece without its leading and trailing whitespace.
RefTrim(s) ==
    LET solid == {i \in 1..Len(s) : ~IsWhitespace(s[i])}
    IN  IF solid = {} THEN <<>>
        ELSE SubSeq(s, CHOOSE i \in solid : \A j \in solid : i <= j,
                       CHOOSE i \in solid : \A j \in solid : j <= i)

RefTags(t) == [k \in 1..Len(RefPieces(t)) |-> ToLowercase(RefTrim(RefPieces(t)[k]))]

ShortInCharacters(s) == s # <<>> /\ Len(s) < 50
ShortInBytes(s) == s # <<>> /\ StrLen(s) < 50

\* C4, as stated: the tags are the comma-separated pieces of the response,
\* trimmed and lower-cased, in split order, without those that are empty or
\* 50 or more characters long.
C4_AsClaimed ==
    Tagged => result.val = SelectSeq(RefTags(Text), ShortInCharacters)

\* C4, amended: the tags are the comma-separated pieces of the response,
\* trimmed and lower-cased, in split order, without those that are empty or
\* whose UTF-8 encoding is 50 or more bytes long.
C4_TagsByByteLength ==
    Tagged => result.val = SelectSeq(RefTags(Text), ShortInBytes)

\* A response with a piece of 25 characters and 50 bytes, which is dropped,
\* next to a piece that is kept.
C4_Witness ==
    /\ Tagged
    /\ \E k \in 1..Len(RefPieces(Text)) :
           /\ Len(RefTags(Text)[k]) < 50
           /\ StrLen(RefTags(Text)[k]) >= 50
    /\ result.val # <<>>

\* The readable-image case of generate_tags, and the outcome of its send().
Posted == op = "generate_tags" /\ seen.read.ok /\ sent # <<>>
Net == sent[1].outcome

IsNetworkError ==
    /\ ~result.ok
    /\ Len(result.err) = 3
    /\ result.err[1] = "Failed to call Ollama: "
    /\ result.err[3] = ". Is Ollama running?"
IsServerError(status) ==
    ~result.ok /\ result.err = <<"Ollama returned error: ", status>>
IsParseError ==
    /\ ~result.ok
    /\ Len(result.err) = 2
    /\ result.err[1] = "Failed to parse Ollama response: "

\* C5: for a readable image, generate_tags fails with the network error and
\* its hint when the POST was not delivered; otherwise with the server error
\* carrying the status when the status is not 2xx; otherwise with the parse
\* error when the body is no {response: string}; otherwise it returns tags.
\* Exactly one of the four happens.
C5_OutcomeOrder ==
    Posted =>
        LET expected ==
                IF ~Net.delivered THEN "network"
                ELSE IF Net.status \notin 200..299 THEN "server"
                ELSE IF Net.body.kind # "response" THEN "parse"
                ELSE "tags"
        IN  /\ IsNetworkError <=> expected = "network"
            /\ IsNetworkError => result.err[2] = Net.err
            /\ IsServerError(Net.status) <=> expected = "server"
            /\ IsParseError <=> expected = "parse"
            /\ result.ok <=> expected = "tags"

\* A non-success status with a body that would not decode: the server error
\* is returned.
C5_Witness ==
    /\ Posted
    /\ Net.delivered
    /\ Net.status = 404
    /\ Net.body.kind # "response"
    /\ IsServerError(404)

\* C6: check_ollama never returns an error, and returns true exactly when
\* the GET was answered with a 2xx status.
C6_HealthIsBoolean ==
    op = "check_ollama" =>
        /\ result.ok
        /\ result.err = <<>>
        /\ result.val \in BOOLEAN
        /\ result.val <=> (sent[1].outcome.delivered
                           /\ sent[1].outcome.status \in 200..299)

\* check_ollama answered false to a response with a non-success status.
C6_Witness ==
    /\ op = "check_ollama"
    /\ sent[1].outcome.delivered
    /\ sent[1].outcome.status = 500
    /\ result.val = FALSE

\* C7: the id of every returned record is "img_" followed by the zero-based
\* position of its entry in the raw enumeration, whatever its position in
\* the sorted result.
C7_IdIsRawIndex ==
    Scanned =>
        \A k \in 1..Len(result.val) :
            \E i \in 1..Len(Raw) :
                /\ Raw[i].name = result.val[k].name
                /\ result.val[k].id = <<"i", "m", "g", "_">> \o Decimal(i - 1)

\* A result whose first record does not carry the id img_0, after an
\* enumeration in which an entry that was skipped came first.
C7_Witness ==
    /\ Scanned
    /\ Len(result.val) >= 2
    /\ ~IsImageEntry(Raw[1])
    /\ result.val[1].id = <<"i", "m", "g", "_", "2">>
    /\ result.val[2].id = <<"i", "m", "g", "_", "1">>

\* C8: every record of a successful scan_folder has no tags and an empty
\* description, whatever call came before.
C8_FreshRecords ==
    Scanned =>
        \A k \in 1..Len(result.val) :
            result.val[k].tags = <<>> /\ result.val[k].description = <<>>

\* A scan that returned records right after a generate_tags call.
C8_Witness ==
    /\ Scanned
    /\ prev = "generate_tags"
    /\ Len(result.val) = 3

\* C9: generate_tags sends no request when the image cannot be read and
\* fails with "Failed to read image"; otherwise it sends exactly one POST,
\* whatever comes of it; check_ollama sends exactly one GET.
C9_OneRequest ==
    /\ op = "generate_tags" =>
           IF seen.read.ok
           THEN /\ Len(sent) = 1
                /\ sent[1].method = "POST"
                /\ sent[1].url = "http://localhost:11434/api/generate"
           ELSE /\ sent = <<>>
                /\ ~result.ok
                /\ result.err = <<"Failed to read image: ", seen.read.err>>
    /\ op = "check_ollama" =>
           /\ Len(sent) = 1
           /\ sent[1].method = "GET"
           /\ sent[1].url = "http://localhost:11434/api/tags"

\* A generate_tags call whose only request could not be sent.
C9_Witness ==
    /\ op = "generate_tags"
    /\ seen.read.ok
    /\ Len(sent) = 1
    /\ ~sent[1].outcome.delivered
    /\ IsNetworkError

\* C10: the ids of one successful scan_folder result are pairwise distinct,
\* and there are no more records than enumerated entries.
C10_DistinctIds ==
    Scanned =>
        /\ \A i, j \in 1..Len(result.val) :
               i # j => result.val[i].id # result.val[j].id
        /\ Len(result.val) <= Len(Raw)

\* A result of several records, fewer than the entries enumerated.
C10_Witness ==
    /\ Scanned
    /\ Len(result.val) >= 2
    /\ Len(result.val) < Len(Raw)

====
